---- MODULE Spec2Model ----
(***************************************************************************)
(* NanoJeff: a 4-register, 8-bit CPU (NanoJeffCPU) wired by Harness to a   *)
(* 256-byte program ROM (imem), a 256-byte data RAM (dmem) and one IO port *)
(* at data address 255 (leds out, buttons in).  One action, Tick, is one   *)
(* clock edge: every combinational signal is a function of the pre-edge    *)
(* state, and all synchronous state commits together.                      *)
(***************************************************************************)
EXTENDS Integers, Sequences, FiniteSets, TLC

VARIABLES
    program_counter,  \* NanoJeffCPU: Signal(8), sync
    regfile,          \* NanoJeffCPU: Memory(shape=unsigned(8), depth=4)
    dmem,             \* Harness: Memory(shape=unsigned(8), depth=256)
    imem,             \* Harness: Memory(depth=256, init=program)
    leds,             \* Harness: Out(8), sync
    cycle,            \* number of clock edges since reset
    last,             \* history: the state, instruction and buttons the last edge sampled
    stored,           \* history: data address |-> value of the latest SW to it
    timer,            \* BlinkLeds: Signal(unsigned(26)), sync
    csig,             \* BlinkLeds: Signal(7, init=0b1), sync, drives column and leds
    rsig,             \* BlinkLeds: Signal(5, init=0b11110), sync, drives row
    blink_last        \* history: timer, csig and rsig the last BlinkLeds edge sampled

cpu_vars == <<program_counter, regfile, dmem, imem, leds, cycle, last, stored>>

blink_vars == <<timer, csig, rsig, blink_last>>

vars == <<cpu_vars, blink_vars>>

----------------------------------------------------------------------------
(* Bounds of the exploration *)

MaxCycles == 10

\* clock edges explored when the program is increment_leds: its 11 set-up
\* cycles and 257 rounds of its 3-cycle loop
RefCycles == 783

\* register operand values the programs load before the instruction under test
RegVals == {0, 1, 7, 8, 163, 255}

\* register operand values of the programs that exercise the data bus
MemVals == {0, 7, 255}

\* values the environment drives on the buttons input
Buttons == {0, 90}

----------------------------------------------------------------------------
(* Fixed-width arithmetic *)

XLEN == 8

Byte == 0 .. 255

RegIndex == 0 .. 3

\* assignment of a wider value to a Signal(w): the low w bits
Trunc(x, w) == x % (2 ^ w)

\* the slice value[lo:hi]
Slice(x, lo, hi) == (x \div (2 ^ lo)) % (2 ^ (hi - lo))

RECURSIVE shift_left(_, _)
shift_left(x, n) ==
    IF x = 0 \/ n = 0 THEN x ELSE shift_left(Trunc(2 * x, XLEN), n - 1)

RECURSIVE shift_right(_, _)
shift_right(x, n) ==
    IF x = 0 \/ n = 0 THEN x ELSE shift_right(x \div 2, n - 1)

\* variant: the complement of an unbounded integer
invert_unbounded(x) == (0 - x) - 1

invert(x) == (2 ^ XLEN - 1) - x

\* one bit-parallel two-operand operator, bit by bit over w bits
RECURSIVE bitwise(_, _, _, _)
bitwise(f, x, y, w) ==
    IF w = 0 THEN 0
    ELSE f[x % 2][y % 2] + 2 * bitwise(f, x \div 2, y \div 2, w - 1)

bit_and(x, y) == bitwise([p \in 0 .. 1 |-> [q \in 0 .. 1 |-> p * q]], x, y, XLEN)

bit_or(x, y) == bitwise([p \in 0 .. 1 |-> [q \in 0 .. 1 |-> p + q - p * q]], x, y, XLEN)

bit_xor(x, y) == bitwise([p \in 0 .. 1 |-> [q \in 0 .. 1 |-> (p + q) % 2]], x, y, XLEN)

\* variant: the sum saturates instead of wrapping
add_saturating(x, y) == IF x + y > 255 THEN 255 ELSE x + y

add(x, y) == Trunc(x + y, XLEN)

\* variant: the operands compared as two's-complement numbers
less_than_signed(x, y) ==
    IF (IF x >= 128 THEN x - 256 ELSE x) < (IF y >= 128 THEN y - 256 ELSE y) THEN 1 ELSE 0

less_than(x, y) == IF x < y THEN 1 ELSE 0

----------------------------------------------------------------------------
(* class OpCode(enum.Enum, shape=4) *)

SL == 0
SR == 1
NOT == 2
AND == 3
OR == 4
XOR == 5
ADD == 6
SLT == 7
LW == 8
SW == 9
LI == 10
LUI == 11
JR == 12
BZ == 13
JI == 14
JIR == 15

----------------------------------------------------------------------------
(* NanoJeffCPU.elaborate: the combinational signals, as functions of the   *)
(* instruction word and of the pre-edge state.  Where the source assigns a *)
(* signal more than once, the last assignment that applies wins.           *)

opcode(instruction) == Slice(instruction, 4, 8)

\* variant: LI and LUI keep the register index of instruction[2:4]
a_from_field(instruction) == Slice(instruction, 2, 4)

\* a.eq(instruction[2:4]), overridden by a.eq(0) in the LI and LUI cases
a(instruction) ==
    IF opcode(instruction) \in {LI, LUI} THEN 0 ELSE Slice(instruction, 2, 4)

b(instruction) == Slice(instruction, 0, 2)

\* variant: the immediate cut to the width of a register index
imm_two_bits(instruction) == Slice(instruction, 0, 2)

imm(instruction) == Slice(instruction, 0, 4)

\* simm = Signal(2); simm.eq(instruction[:]) keeps the low two bits, unsigned
simm(instruction) == Trunc(Slice(instruction, 0, 8), 2)

ar(rf, instruction) == rf[a(instruction)]

br(rf, instruction) == rf[b(instruction)]

\* variant: SW addresses memory with register b
data_address_from_b(rf, instruction) ==
    CASE opcode(instruction) = LW -> br(rf, instruction)
      [] opcode(instruction) = SW -> br(rf, instruction)
      [] OTHER -> 0

data_address(rf, instruction) ==
    CASE opcode(instruction) = LW -> br(rf, instruction)
      [] opcode(instruction) = SW -> ar(rf, instruction)
      [] OTHER -> 0

\* variant: SW drives register a on the data bus
data_out_from_a(rf, instruction) ==
    IF opcode(instruction) = SW THEN ar(rf, instruction) ELSE 0

data_out(rf, instruction) ==
    IF opcode(instruction) = SW THEN br(rf, instruction) ELSE 0

data_write(instruction) == IF opcode(instruction) = SW THEN 1 ELSE 0

\* variant: SW leaves the register write enabled
we_on_store(instruction) ==
    IF opcode(instruction) \in {BZ, JI, JIR} THEN 0 ELSE 1

\* variant: BZ leaves the register write enabled
we_on_branch(instruction) ==
    IF opcode(instruction) \in {SW, JI, JIR} THEN 0 ELSE 1

we(instruction) ==
    IF opcode(instruction) \in {SW, BZ, JI, JIR} THEN 0 ELSE 1

\* Harness: cpu.data_in.eq(dportr.data), overridden at address 255
IOAddr == 255

\* variant: the IO port decoded from the top address bit alone
data_in_io_upper_half(dm, btn, rf, instruction) ==
    IF data_address(rf, instruction) >= 128 THEN btn
    ELSE dm[data_address(rf, instruction)]

\* variant: no IO override, address 255 reads the RAM
data_in_ram_only(dm, btn, rf, instruction) == dm[data_address(rf, instruction)]

data_in(dm, btn, rf, instruction) ==
    IF data_address(rf, instruction) = IOAddr THEN btn
    ELSE dm[data_address(rf, instruction)]

wd(pc, rf, din, instruction) ==
    LET op == opcode(instruction)
        x  == ar(rf, instruction)
        y  == br(rf, instruction)
    IN  CASE op = SL  -> shift_left(x, y)
          [] op = SR  -> shift_right(x, y)
          [] op = NOT -> invert(y)
          [] op = AND -> bit_and(x, y)
          [] op = OR  -> bit_or(x, y)
          [] op = XOR -> bit_xor(x, y)
          [] op = ADD -> add(x, y)
          [] op = SLT -> less_than(x, y)
          [] op = LW  -> din
          [] op = LI  -> bit_or(bit_and(x, 240), imm(instruction))
          [] op = LUI -> bit_or(bit_and(x, 15), shift_left(imm(instruction), 4))
          [] op = JR  -> Trunc(pc + 1, XLEN)
          [] OTHER    -> 0

\* program_counter.eq(br)
pc_JR(rf, instruction) == br(rf, instruction)

\* program_counter.eq(program_counter + 1 + simm)
pc_BZ(pc, instruction) == Trunc(pc + 1 + simm(instruction), XLEN)

\* program_counter.eq(program_counter + 1 + imm)
pc_JI(pc, instruction) == Trunc(pc + 1 + imm(instruction), XLEN)

\* variant: JIR without the extra -1
pc_JIR_no_decrement(pc, instruction) == Trunc(pc - imm(instruction), XLEN)

\* program_counter.eq(program_counter - 1 - imm)
pc_JIR(pc, instruction) == Trunc(pc - 1 - imm(instruction), XLEN)

\* reg_write port: addr = a, data = wd, en = we
regfile_next(pc, rf, din, instruction) ==
    IF we(instruction) = 1
    THEN [rf EXCEPT ![a(instruction)] = wd(pc, rf, din, instruction)]
    ELSE rf

\* variant: the PC holds during a store
program_counter_next_store_stall(pc, rf, instruction) ==
    LET op == opcode(instruction) IN
    CASE op = JR  -> pc_JR(rf, instruction)
      [] op = BZ /\ ar(rf, instruction) # 0 -> pc_BZ(pc, instruction)
      [] op = JI  -> pc_JI(pc, instruction)
      [] op = JIR -> pc_JIR(pc, instruction)
      [] op = SW  -> pc
      [] OTHER    -> Trunc(pc + 1, XLEN)

\* variant: JR reads its target from the register file after the link write
program_counter_next_after_write(pc, rf, instruction) ==
    LET op == opcode(instruction) IN
    CASE op = JR  -> pc_JR(regfile_next(pc, rf, 0, instruction), instruction)
      [] op = BZ /\ ar(rf, instruction) # 0 -> pc_BZ(pc, instruction)
      [] op = JI  -> pc_JI(pc, instruction)
      [] op = JIR -> pc_JIR(pc, instruction)
      [] OTHER    -> Trunc(pc + 1, XLEN)

\* m.d.sync += program_counter.eq(...): default +1, overridden per opcode
program_counter_next(pc, rf, instruction) ==
    LET op == opcode(instruction) IN
    CASE op = JR  -> pc_JR(rf, instruction)
      [] op = BZ /\ ar(rf, instruction) # 0 -> pc_BZ(pc, instruction)
      [] op = JI  -> pc_JI(pc, instruction)
      [] op = JIR -> pc_JIR(pc, instruction)
      [] OTHER    -> Trunc(pc + 1, XLEN)

----------------------------------------------------------------------------
(* Harness.elaborate *)

\* dportw: addr = cpu.data_address, data = cpu.data_out, en = cpu.data_write
dmem_next(dm, rf, instruction) ==
    IF data_write(instruction) = 1
    THEN [dm EXCEPT ![data_address(rf, instruction)] = data_out(rf, instruction)]
    ELSE dm

\* variant: the latch ignores data_write
leds_next_any_access(ld, rf, instruction) ==
    IF data_address(rf, instruction) = IOAddr
    THEN data_out(rf, instruction)
    ELSE ld

\* with m.If(cpu.data_address == 255): with m.If(cpu.data_write == 1): leds.eq(data_out)
leds_next(ld, rf, instruction) ==
    IF data_address(rf, instruction) = IOAddr /\ data_write(instruction) = 1
    THEN data_out(rf, instruction)
    ELSE ld

\* variant: one memory for program and data, SW writes reach the program
imem_next_unified(im, rf, instruction) ==
    IF data_write(instruction) = 1
    THEN [im EXCEPT ![data_address(rf, instruction)] = data_out(rf, instruction)]
    ELSE im

\* imem has a read port only (iport); nothing is ever written to it
imem_next(im, rf, instruction) == im

----------------------------------------------------------------------------
(* Programs: Harness(program) accepts any list of at most 256 bytes.       *)

enc_r(op, ra, rb) == op * 16 + ra * 4 + rb

enc_i(op, im) == op * 16 + im

\* Memory(init=program): the listed bytes in order, 0 past the end
load(program) == [i \in Byte |-> IF i < Len(program) THEN program[i + 1] ELSE 0]

increment_leds ==
    << 80, 85, 90, 95, 175, 191, 108, 80, 156, 161, 100, 156, 97, 241 >>

\* leaves the registers holding (x, y, ~x, ~y)
Prologue(x, y) ==
    << enc_i(LI, y % 16), enc_i(LUI, y \div 16), enc_r(OR, 1, 0), enc_r(NOT, 3, 0),
       enc_i(LI, x % 16), enc_i(LUI, x \div 16), enc_r(NOT, 2, 0) >>

\* any one instruction word, run on loaded registers
TestProgs == { load(Prologue(x, y) \o <<i>>) : x \in RegVals, y \in RegVals, i \in Byte }

MemInstrs ==
    { enc_r(SW, 0, 1), enc_r(SW, 0, 2), enc_r(SW, 1, 0),
      enc_r(LW, 2, 0), enc_r(LW, 3, 1), enc_r(ADD, 1, 1) }

\* three data-bus instructions in a row
MemProgs ==
    { load(Prologue(x, y) \o <<i, j, k>>) :
        x \in MemVals, y \in MemVals, i \in MemInstrs, j \in MemInstrs, k \in MemInstrs }

\* any one instruction word at address 0, and at address 255 behind a JIR
EdgeProgs ==
    { load(<<i>>) : i \in Byte }
    \cup { [load(<<enc_i(JIR, 0)>>) EXCEPT ![255] = i] : i \in Byte }

\* m = Harness(increment_leds)
RefProgram == load(increment_leds)

Programs == TestProgs \cup MemProgs \cup EdgeProgs \cup {RefProgram}

CycleLimit(im) == IF im = RefProgram THEN RefCycles ELSE MaxCycles

----------------------------------------------------------------------------
(* BlinkLeds.elaborate (src/leds.py): a free-running timer; each time it   *)
(* reads 0 the 7-bit column signal rotates left, and the 5-bit row signal  *)
(* rotates left when the column signal comes back to its initial value.    *)

\* width of the timer: Signal(unsigned(26)) in the source.  The scan reads
\* the timer only through timer == 0, once per wrap, so the model keeps
\* the wrapping counter and explores it at a small width.
TimerBits == 3

CSIG_WIDTH == 7

RSIG_WIDTH == 5

CSIG_INIT == 1

RSIG_INIT == 30

\* Value.rotate_left(1) on a w-bit signal
rotate_left(x, w) == ((2 * x) % (2 ^ w)) + ((2 * x) \div (2 ^ w))

timer_next(t) == Trunc(t + 1, TimerBits)

\* variant: the column rotates on every clock edge
csig_next_every_edge(t, c) == rotate_left(c, CSIG_WIDTH)

csig_next(t, c) == IF t = 0 THEN rotate_left(c, CSIG_WIDTH) ELSE c

\* variant: the row rotates on every timer wrap
rsig_next_every_wrap(t, c, r) == IF t = 0 THEN rotate_left(r, RSIG_WIDTH) ELSE r

rsig_next(t, c, r) ==
    IF t = 0 /\ rotate_left(c, CSIG_WIDTH) = CSIG_INIT
    THEN rotate_left(r, RSIG_WIDTH)
    ELSE r

BlinkReset ==
    /\ timer = 0
    /\ csig = CSIG_INIT
    /\ rsig = RSIG_INIT
    /\ blink_last = [timer |-> 0, csig |-> CSIG_INIT, rsig |-> RSIG_INIT, edges |-> 0]

\* one clock edge of BlinkLeds
BlinkTick ==
    /\ timer' = timer_next(timer)
    /\ csig' = csig_next(timer, csig)
    /\ rsig' = rsig_next(timer, csig, rsig)
    /\ blink_last' = [timer |-> timer, csig |-> csig, rsig |-> rsig, edges |-> 1]
    /\ UNCHANGED cpu_vars

----------------------------------------------------------------------------
(* The state machine *)

Init ==
    /\ program_counter = 0
    /\ regfile = [r \in RegIndex |-> 0]
    /\ dmem = [i \in Byte |-> 0]
    /\ imem \in Programs
    /\ leds = 0
    /\ cycle = 0
    /\ last = [program_counter |-> 0, regfile |-> [r \in RegIndex |-> 0],
               leds |-> 0, buttons |-> 0, instruction |-> 0]
    /\ stored = << >>
    /\ BlinkReset

\* one clock edge, with the environment driving `buttons` during the cycle
Tick ==
    /\ cycle < CycleLimit(imem)
    /\ \E buttons \in Buttons :
       LET instruction == imem[program_counter]
           din == data_in(dmem, buttons, regfile, instruction)
       IN  /\ program_counter' = program_counter_next(program_counter, regfile, instruction)
           /\ regfile' = regfile_next(program_counter, regfile, din, instruction)
           /\ dmem' = dmem_next(dmem, regfile, instruction)
           /\ leds' = leds_next(leds, regfile, instruction)
           /\ imem' = imem_next(imem, regfile, instruction)
           /\ last' = [program_counter |-> program_counter, regfile |-> regfile,
                       leds |-> leds, buttons |-> buttons, instruction |-> instruction]
           /\ stored' = IF instruction \div 16 = 9
                        THEN (regfile[(instruction \div 4) % 4] :> regfile[instruction % 4])
                             @@ stored
                        ELSE stored
    /\ cycle' = cycle + 1
    /\ UNCHANGED blink_vars

Next == Tick

Spec == Init /\ [][Next]_vars

\* BlinkLeds on its own clock, which never stops
InitBlink ==
    /\ program_counter = 0
    /\ regfile = [r \in RegIndex |-> 0]
    /\ dmem = [i \in Byte |-> 0]
    /\ imem = load(<< >>)
    /\ leds = 0
    /\ cycle = 0
    /\ last = [program_counter |-> 0, regfile |-> [r \in RegIndex |-> 0],
               leds |-> 0, buttons |-> 0, instruction |-> 0]
    /\ stored = << >>
    /\ BlinkReset

NextBlink == BlinkTick

SpecBlink == InitBlink /\ [][NextBlink]_vars /\ WF_vars(BlinkTick)

----------------------------------------------------------------------------
(* The cycle just executed, read off the history record with plain         *)
(* arithmetic on the instruction word.                                     *)

Stepped == cycle > 0

L_op == last.instruction \div 16

L_a == (last.instruction \div 4) % 4

L_b == last.instruction % 4

L_imm == last.instruction % 16

L_ar == last.regfile[L_a]

L_br == last.regfile[L_b]

L_pc == last.program_counter

Bit(v, i) == (v \div (2 ^ i)) % 2

SignExt4(v) == IF v >= 8 THEN v - 16 ELSE v

StoredAt(x) == IF x \in DOMAIN stored THEN stored[x] ELSE 0

----------------------------------------------------------------------------
(* Claims *)

\* C1: BZ (opcode 13) with register a nonzero moves the PC to
\* (PC + 1 + sign_extend(bits [0:4))) mod 256, with register a zero to
\* (PC + 1) mod 256, and writes no register in either case.
C1_BZ_signed_branch ==
    (Stepped /\ L_op = 13) =>
        /\ regfile = last.regfile
        /\ program_counter =
               IF L_ar # 0 THEN (L_pc + 1 + SignExt4(L_imm)) % 256
               ELSE (L_pc + 1) % 256

\* C2: SW with register a = 255 leaves leds equal to the pre-cycle register b.
C2_SW_io_sets_leds ==
    (Stepped /\ L_op = 9 /\ L_ar = 255) => leds = L_br

C2_Witness ==
    /\ Stepped /\ L_op = 9 /\ L_ar = 255
    /\ last.leds # 0 /\ last.leds # L_br /\ L_br # 0
    /\ leds = L_br

\* C3: leds is 0 at reset and keeps its value in every cycle that is not an
\* SW with register a = 255.
C3_leds_frame ==
    /\ cycle = 0 => leds = 0
    /\ (Stepped /\ ~(L_op = 9 /\ L_ar = 255)) => leds = last.leds

C3_Witness ==
    /\ Stepped /\ L_op = 9 /\ L_ar # 255
    /\ last.leds # 0 /\ L_br # last.leds
    /\ leds = last.leds

\* C4: LW with register b = 255 loads the cycle's buttons value into
\* register a, whatever was stored to address 255 before.
C4_LW_io_reads_buttons ==
    (Stepped /\ L_op = 8 /\ L_br = 255) => regfile[L_a] = last.buttons

C4_Witness ==
    /\ Stepped /\ L_op = 8 /\ L_br = 255
    /\ 255 \in DOMAIN stored /\ stored[255] # last.buttons
    /\ last.buttons # 0
    /\ regfile[L_a] = last.buttons

\* C5: LW with register b = x, x # 255, loads the value of the latest SW to x,
\* or 0 when no SW to x has executed since reset.
C5_LW_ram_reads_latest_SW ==
    (Stepped /\ L_op = 8 /\ L_br # 255) => regfile[L_a] = StoredAt(L_br)

C5_Witness ==
    /\ Stepped /\ L_op = 8 /\ L_br # 255
    /\ L_br \in DOMAIN stored /\ stored[L_br] # 0
    /\ regfile[L_a] = stored[L_br]

\* C6: JI moves the PC to (PC + 1 + imm) mod 256, JIR to (PC - 1 - imm) mod 256,
\* and neither writes a register.
C6_JI_JIR ==
    /\ (Stepped /\ L_op = 14) =>
           program_counter = (L_pc + 1 + L_imm) % 256 /\ regfile = last.regfile
    /\ (Stepped /\ L_op = 15) =>
           program_counter = (L_pc - 1 - L_imm) % 256 /\ regfile = last.regfile

C6_Witness ==
    /\ Stepped /\ L_op = 15 /\ L_pc = 0 /\ L_imm = 15
    /\ program_counter = 240

\* C7: every cycle whose opcode is not JR, BZ, JI or JIR moves the PC to
\* (PC + 1) mod 256.
C7_pc_increments ==
    (Stepped /\ L_op \notin {12, 13, 14, 15}) => program_counter = (L_pc + 1) % 256

C7_Witness ==
    /\ Stepped /\ L_op \notin {12, 13, 14, 15}
    /\ L_pc = 255 /\ program_counter = 0

\* C8: JR leaves the PC equal to the pre-cycle register b and register a equal
\* to (pre-cycle PC + 1) mod 256, also when a and b are the same register.
C8_JR_precycle ==
    (Stepped /\ L_op = 12) =>
        /\ program_counter = L_br
        /\ regfile[L_a] = (L_pc + 1) % 256

C8_Witness ==
    /\ Stepped /\ L_op = 12 /\ L_a = L_b
    /\ L_br # (L_pc + 1) % 256
    /\ program_counter = L_br /\ regfile[L_a] = (L_pc + 1) % 256

\* C9: SL, SR, AND, OR, XOR, ADD write ar<<br, ar>>br, ar&br, ar|br, ar^br,
\* ar+br reduced modulo 256 into register a; NOT writes the 8-bit complement
\* of br.
C9_ALU ==
    Stepped =>
        LET r == regfile[L_a] IN
        /\ L_op = 0 => r = IF L_br >= 8 THEN 0 ELSE (L_ar * 2 ^ L_br) % 256
        /\ L_op = 1 => r = IF L_br >= 8 THEN 0 ELSE L_ar \div 2 ^ L_br
        /\ L_op = 2 => r \in 0 .. 255 /\ \A i \in 0 .. 7 : Bit(r, i) = 1 - Bit(L_br, i)
        /\ L_op = 3 => r \in 0 .. 255
                       /\ \A i \in 0 .. 7 : Bit(r, i) = 1 <=> (Bit(L_ar, i) = 1 /\ Bit(L_br, i) = 1)
        /\ L_op = 4 => r \in 0 .. 255
                       /\ \A i \in 0 .. 7 : Bit(r, i) = 1 <=> (Bit(L_ar, i) = 1 \/ Bit(L_br, i) = 1)
        /\ L_op = 5 => r \in 0 .. 255
                       /\ \A i \in 0 .. 7 : Bit(r, i) = 1 <=> (Bit(L_ar, i) # Bit(L_br, i))
        /\ L_op = 6 => r = (L_ar + L_br) % 256

C9_Witness ==
    /\ Stepped /\ L_op = 6 /\ L_a # L_b
    /\ L_ar + L_br >= 256 /\ L_ar # 255 /\ L_br # 255
    /\ regfile[L_a] = L_ar + L_br - 256

\* C10: SLT writes 1 into register a when pre-cycle register a is below
\* pre-cycle register b as unsigned numbers, and 0 otherwise.
C10_SLT ==
    (Stepped /\ L_op = 7) => regfile[L_a] = IF L_ar < L_br THEN 1 ELSE 0

C10_Witness ==
    /\ Stepped /\ L_op = 7
    /\ L_ar >= 128 /\ L_br < 128 /\ L_br > 0
    /\ regfile[L_a] = 0

\* C11: LI sets register 0 to (r0 & 0xF0) | imm and LUI sets it to
\* (r0 & 0x0F) | (imm << 4), whatever bits [2:4) of the instruction are, and
\* registers 1, 2 and 3 keep their values.
C11_LI_LUI ==
    /\ (Stepped /\ L_op = 10) =>
           /\ regfile[0] = (last.regfile[0] \div 16) * 16 + L_imm
           /\ \A r \in 1 .. 3 : regfile[r] = last.regfile[r]
    /\ (Stepped /\ L_op = 11) =>
           /\ regfile[0] = (last.regfile[0] % 16) + 16 * L_imm
           /\ \A r \in 1 .. 3 : regfile[r] = last.regfile[r]

\* LI with r0 = 0b10100011 and imm = 0b0101 (so bits [2:4) name register 1)
C11_Witness ==
    /\ Stepped /\ L_op = 10 /\ L_imm = 5 /\ last.regfile[0] = 163
    /\ last.regfile[1] # 0
    /\ regfile[0] = 165 /\ regfile[1] = last.regfile[1]

\* C16 as stated: for every instruction word the decoded opcode is bits [4:8),
\* a is bits [2:4), b is bits [0:2) and imm is bits [0:4), whatever the opcode.
C16_decode_pure_extraction ==
    Stepped =>
        /\ opcode(last.instruction) = L_op
        /\ a(last.instruction) = L_a
        /\ b(last.instruction) = L_b
        /\ imm(last.instruction) = L_imm

\* C16 as amended: opcode, b and imm are bits [4:8), [0:2) and [0:4) of every
\* instruction word; a is bits [2:4) for every opcode except LI and LUI, for
\* which the decoded a is 0.
C16_decode_amended ==
    Stepped =>
        /\ opcode(last.instruction) = L_op
        /\ b(last.instruction) = L_b
        /\ imm(last.instruction) = L_imm
        /\ a(last.instruction) = IF L_op \in {10, 11} THEN 0 ELSE L_a

C16_Witness ==
    /\ Stepped /\ L_op = 11 /\ L_a = 3 /\ L_imm = 13
    /\ a(last.instruction) = 0 /\ imm(last.instruction) = 13

\* C18: a cycle changes at most one register: the one indexed by bits [2:4)
\* for SL, SR, NOT, AND, OR, XOR, ADD, SLT, LW and JR, register 0 for LI and
\* LUI, none for SW, BZ, JI and JIR.
C18_register_frame ==
    Stepped =>
        \A r \in 0 .. 3 :
            regfile[r] # last.regfile[r] =>
                \/ L_op \in (0 .. 8) \cup {12} /\ r = L_a
                \/ L_op \in {10, 11} /\ r = 0

C18_Witness ==
    /\ Stepped /\ L_op = 8 /\ L_a = 2
    /\ regfile[2] # last.regfile[2]
    /\ \A r \in {0, 1, 3} : regfile[r] = last.regfile[r] /\ regfile[r] # regfile[2]

----------------------------------------------------------------------------
(* The cycle about to execute, read off the current state with plain       *)
(* arithmetic on the instruction word.                                     *)

N_ins == imem[program_counter]

N_op == N_ins \div 16

N_ar == regfile[(N_ins \div 4) % 4]

N_br == regfile[N_ins % 4]

\* C13: unless the instruction is LW with register b = 255, the state after
\* the cycle (PC, registers, data store, leds) is the same for every value of
\* buttons: the step taken ends where the step under any other value ends.
C13_buttons_only_via_LW_io ==
    [][ ~(N_op = 8 /\ N_br = 255) =>
            \A b2 \in Buttons :
                /\ program_counter' = program_counter_next(program_counter, regfile, N_ins)
                /\ regfile' = regfile_next(program_counter, regfile,
                                           data_in(dmem, b2, regfile, N_ins), N_ins)
                /\ dmem' = dmem_next(dmem, regfile, N_ins)
                /\ leds' = leds_next(leds, regfile, N_ins) ]_vars

\* an LW from RAM executed while buttons held another, nonzero value
C13_Witness ==
    /\ Stepped /\ L_op = 8 /\ L_br # 255 /\ L_br >= 128
    /\ last.buttons # 0 /\ regfile[L_a] # last.buttons

\* C14: data_write and the register write enable are never both asserted; SW
\* writes the data store and leaves all four registers unchanged; every
\* instruction that writes a register leaves the data store unchanged.
C14_store_xor_register_write ==
    [][ /\ ~(data_write(N_ins) = 1 /\ we(N_ins) = 1)
        /\ N_op = 9 => /\ regfile' = regfile
                       /\ dmem' = [dmem EXCEPT ![N_ar] = N_br]
        /\ N_op \in (0 .. 8) \cup {10, 11, 12} => dmem' = dmem ]_vars

C14_Witness ==
    /\ Stepped /\ L_op = 9 /\ L_ar # 0 /\ L_ar # 255 /\ L_br # 0
    /\ regfile = last.regfile /\ dmem[L_ar] = L_br

\* C15: no cycle changes the instruction store.
C15_imem_read_only ==
    [][ imem' = imem ]_vars

\* an SW to an address whose program byte differs from the value stored
C15_Witness ==
    /\ Stepped /\ L_op = 9 /\ L_ar < 8
    /\ imem[L_ar] # L_br /\ imem[L_ar] # 0
    /\ dmem[L_ar] = L_br

----------------------------------------------------------------------------
(* The reference program *)

IsRef == imem = RefProgram

\* loop rounds completed and position in the 3-cycle loop after k edges, k >= 11
RefRound(k) == (k - 11) \div 3

RefPhase(k) == (k - 11) % 3

\* the state the reference program is in after k clock edges
RefState(k) ==
    [ program_counter |-> IF k <= 11 THEN k ELSE 11 + RefPhase(k),
      regfile |->
          [r \in 0 .. 3 |->
              CASE r = 0 -> (CASE k <= 4 -> 0
                               [] k = 5 -> 15
                               [] k \in {6, 7} -> 255
                               [] k \in {8, 9} -> 0
                               [] k = 10 -> 1
                               [] OTHER -> (RefRound(k) + (IF RefPhase(k) = 2 THEN 2 ELSE 1)) % 256)
                [] r = 1 -> (IF k >= 11 THEN 1 ELSE 0)
                [] r = 2 -> 0
                [] r = 3 -> (IF k >= 7 THEN 255 ELSE 0)],
      leds |-> IF k < 12 THEN 0 ELSE ((k - 12) \div 3 + 1) % 256 ]

TypeOK ==
    /\ program_counter \in 0 .. 255
    /\ \A r \in 0 .. 3 : regfile[r] \in 0 .. 255
    /\ DOMAIN regfile = 0 .. 3
    /\ DOMAIN dmem = 0 .. 255
    /\ DOMAIN imem = 0 .. 255
    /\ \A i \in 0 .. 255 : dmem[i] \in 0 .. 255
    /\ leds \in 0 .. 255

\* C12: every step from every state, for every instruction word and buttons
\* value, ends in a well-formed state (an 8-bit PC, four 8-bit registers, 256
\* data bytes, an 8-bit latch) and no state short of the exploration limit is
\* stuck; the reference program passes through one and the same state at every
\* cycle, whatever the buttons sequence.
C12_total_and_reproducible ==
    /\ TypeOK
    /\ cycle < CycleLimit(imem) => ENABLED Tick
    /\ IsRef =>
           /\ program_counter = RefState(cycle).program_counter
           /\ regfile = RefState(cycle).regfile
           /\ leds = RefState(cycle).leds
           /\ \A i \in 0 .. 254 : dmem[i] = 0
           /\ dmem[255] = RefState(cycle).leds

\* the reference program after the testbench's 64 clock edges
C12_Witness ==
    /\ IsRef /\ cycle = 64 /\ last.buttons = 90
    /\ leds = 18 /\ program_counter = 13 /\ regfile[0] = 19

\* C17: the reference program executes addresses 0..10 in its first 11 cycles
\* and then cycles 11 -> 12 -> 13 -> 11; the SW at address 11 executes every
\* third cycle from the 12th clock edge on, and its n-th execution leaves
\* leds = n mod 256; after 256 rounds the machine is back in the state in
\* which it entered the loop.
C17_increment_leds ==
    IsRef =>
        /\ cycle <= 11 => program_counter = cycle /\ leds = 0
        /\ cycle >= 11 => program_counter = 11 + ((cycle - 11) % 3)
        /\ (Stepped /\ cycle <= 11) => L_pc = cycle - 1
        /\ (cycle >= 12 /\ (cycle - 12) % 3 = 0) => L_pc = 11 /\ L_op = 9
        /\ (Stepped /\ L_pc = 11) =>
               /\ cycle >= 12 /\ (cycle - 12) % 3 = 0
               /\ leds = ((cycle - 12) \div 3 + 1) % 256
               /\ leds = (last.leds + 1) % 256
        /\ (Stepped /\ L_pc # 11) => leds = last.leds
        /\ cycle \in {11, 11 + 3 * 256} =>
               /\ regfile = (0 :> 1 @@ 1 :> 1 @@ 2 :> 0 @@ 3 :> 255)
               /\ leds = 0
               /\ \A i \in 0 .. 255 : dmem[i] = 0

\* the 257th execution of the SW at address 11: leds has wrapped to 1
C17_Witness ==
    /\ IsRef /\ Stepped /\ L_pc = 11 /\ cycle = 12 + 3 * 256
    /\ leds = 1 /\ last.leds = 0

----------------------------------------------------------------------------
(* BlinkLeds *)

RECURSIVE PopCount(_, _)
PopCount(x, w) == IF w = 0 THEN 0 ELSE (x % 2) + PopCount(x \div 2, w - 1)

BlinkStepped == blink_last.edges = 1

\* the 7 column selections and the 5 row selections
Columns == { 2 ^ i : i \in 0 .. 6 }

Rows == { 31 - 2 ^ j : j \in 0 .. 4 }

NextColumn(c) == IF c = 64 THEN 1 ELSE 2 * c

NextRow(r) == IF r >= 16 THEN 2 * (r - 16) + 1 ELSE 2 * r

\* C19: csig always has exactly one of its 7 bits set and rsig exactly one of
\* its 5 bits clear; in a cycle whose timer is not 0 both keep their value
\* while the timer increments modulo 2^TimerBits.
C19_one_hot_scan ==
    /\ csig \in 0 .. 127 /\ PopCount(csig, 7) = 1
    /\ rsig \in 0 .. 31 /\ PopCount(rsig, 5) = 4
    /\ (BlinkStepped /\ blink_last.timer # 0) =>
           /\ csig = blink_last.csig
           /\ rsig = blink_last.rsig
           /\ timer = (blink_last.timer + 1) % (2 ^ TimerBits)

\* the edge on which the timer wraps to 0, in the last column of a later row
C19_Witness ==
    /\ BlinkStepped /\ blink_last.timer # 0 /\ timer = 0
    /\ csig = 64 /\ blink_last.csig = 64
    /\ rsig = 23 /\ blink_last.rsig = 23

\* C20: the row rotates left by one exactly on the timer-zero edges that bring
\* the column back to 0b0000001 and on no other edge; the column steps through
\* its 7 values in order; every one of the 35 (column, row) selections recurs
\* for ever.
C20_scan_visits_all ==
    /\ [][ /\ rsig' = IF timer = 0 /\ csig = 64 /\ csig' = 1 THEN NextRow(rsig) ELSE rsig
           /\ csig' = IF timer = 0 THEN NextColumn(csig) ELSE csig ]_vars
    /\ \A c \in Columns : \A r \in Rows : []<>(csig = c /\ rsig = r)

\* the row wraps from 0b01111 back to 0b11110 as the column returns to 1
C20_Witness ==
    /\ BlinkStepped /\ blink_last.timer = 0
    /\ blink_last.csig = 64 /\ csig = 1
    /\ blink_last.rsig = 15 /\ rsig = 30

====
